---------------------------- MODULE Spec2Model ----------------------------
(***************************************************************************)
(* Model of the product management app (src/index.js): the record set     *)
(* held in React state `products`, its persistence in localStorage, the   *)
(* add/edit modal, delete, spreadsheet import and the renewal-date         *)
(* derivation.                                                             *)
(***************************************************************************)
EXTENDS Integers, Sequences, FiniteSets, TLC

(***************************************************************************)
(* JavaScript values.  A field of a record holds undefined (the key is     *)
(* absent), a string (a sequence of one-character strings) or a number.    *)
(* All three share one record shape so that any two values compare.        *)
(***************************************************************************)
Undefined == [t |-> "undefined", s |-> <<>>, n |-> 0]

Str(cs) == [t |-> "string", s |-> cs, n |-> 0]

Num(k) == [t |-> "number", s |-> <<>>, n |-> k]

\* !v of JavaScript, negated: undefined, '' and 0 are falsy.
Truthy(v) == \/ v.t = "string" /\ v.s # <<>>
             \/ v.t = "number" /\ v.n # 0

Digits == <<"0", "1", "2", "3", "4", "5", "6", "7", "8", "9">>

IsDigit(c) == \E k \in 1..10 : Digits[k] = c

DigitVal(c) == (CHOOSE k \in 1..10 : Digits[k] = c) - 1

\* Decimal digits of a natural number, most significant first.
RECURSIVE NatChars(_)
NatChars(k) == IF k < 10 THEN <<Digits[k + 1]>>
               ELSE NatChars(k \div 10) \o <<Digits[(k % 10) + 1]>>

\* String(v): the string form of a value.
StringOf(v) ==
    CASE v.t = "string" -> v.s
      [] v.t = "number" -> IF v.n < 0 THEN <<"-">> \o NatChars(-v.n) ELSE NatChars(v.n)
      [] OTHER -> <<"u", "n", "d", "e", "f", "i", "n", "e", "d">>

\* Value of the longest prefix of cs made of digits, continuing from acc.
RECURSIVE DigitPrefix(_, _)
DigitPrefix(cs, acc) ==
    IF cs = <<>> \/ ~IsDigit(Head(cs)) THEN acc
    ELSE DigitPrefix(Tail(cs), acc * 10 + DigitVal(Head(cs)))

RECURSIVE SkipSpaces(_)
SkipSpaces(cs) == IF cs # <<>> /\ Head(cs) = " " THEN SkipSpaces(Tail(cs)) ELSE cs

\* parseInt(v): leading blanks skipped, an optional sign, then the longest run
\* of digits; NaN when no digit follows.
ParseInt(v) ==
    LET cs   == SkipSpaces(StringOf(v))
        neg  == cs # <<>> /\ Head(cs) = "-"
        body == IF cs # <<>> /\ Head(cs) \in {"-", "+"} THEN Tail(cs) ELSE cs
    IN  IF body = <<>> \/ ~IsDigit(Head(body))
        THEN [nan |-> TRUE, n |-> 0]
        ELSE [nan |-> FALSE,
              n |-> IF neg THEN -DigitPrefix(body, 0) ELSE DigitPrefix(body, 0)]

(***************************************************************************)
(* The Date object.  A time value is a day number since 1970-01-01 and the *)
(* milliseconds within that day, in UTC, or is invalid (NaN).              *)
(***************************************************************************)
MsPerDay == 86400000

MsPerMinute == 60000

IsLeap(y) == (y % 4 = 0 /\ y % 100 # 0) \/ y % 400 = 0

DaysInMonth(y, m) ==
    IF m = 2 THEN (IF IsLeap(y) THEN 29 ELSE 28)
    ELSE IF m \in {4, 6, 9, 11} THEN 30 ELSE 31

\* Day number of the civil date y-m-d (d may lie outside the month: the day
\* number then runs on into the neighbouring months, as MakeDay does).
DaysFromCivil(y, m, d) ==
    LET yy  == IF m <= 2 THEN y - 1 ELSE y
        era == yy \div 400
        yoe == yy - era * 400
        mp  == IF m > 2 THEN m - 3 ELSE m + 9
        doy == (153 * mp + 2) \div 5 + d - 1
        doe == yoe * 365 + yoe \div 4 - yoe \div 100 + doy
    IN  era * 146097 + doe - 719468

\* The civil date <<y, m, d>> of a day number.
CivilFromDays(z) ==
    LET zz  == z + 719468
        era == zz \div 146097
        doe == zz - era * 146097
        yoe == (doe - doe \div 1460 + doe \div 36524 - doe \div 146096) \div 365
        doy == doe - (365 * yoe + yoe \div 4 - yoe \div 100)
        mp  == (5 * doy + 2) \div 153
        d   == doy - (153 * mp + 2) \div 5 + 1
        m   == IF mp < 10 THEN mp + 3 ELSE mp - 9
        y   == yoe + era * 400 + (IF m <= 2 THEN 1 ELSE 0)
    IN  <<y, m, d>>

InvalidDate == [valid |-> FALSE, day |-> 0, ms |-> 0]

TimeValue(day, ms) == [valid |-> TRUE, day |-> day, ms |-> ms]

\* The text of a date-only ISO string YYYY-MM-DD naming a day of the calendar.
IsISODate(cs) ==
    /\ Len(cs) = 10
    /\ cs[5] = "-" /\ cs[8] = "-"
    /\ \A i \in {1, 2, 3, 4, 6, 7, 9, 10} : IsDigit(cs[i])
    /\ LET y == DigitPrefix(SubSeq(cs, 1, 4), 0)
           m == DigitPrefix(SubSeq(cs, 6, 7), 0)
           d == DigitPrefix(SubSeq(cs, 9, 10), 0)
       IN  m \in 1..12 /\ d \in 1..DaysInMonth(y, m)

\* new Date(v): a date-only ISO string is midnight UTC of that day, a number
\* is that many milliseconds after the epoch, anything else is an invalid Date.
\* (Strings in other formats that an engine's fallback parser may accept are
\* outside the inputs used here.)
NewDate(v) ==
    CASE v.t = "string" /\ IsISODate(v.s) ->
            TimeValue(DaysFromCivil(DigitPrefix(SubSeq(v.s, 1, 4), 0),
                                    DigitPrefix(SubSeq(v.s, 6, 7), 0),
                                    DigitPrefix(SubSeq(v.s, 9, 10), 0)), 0)
      [] v.t = "number" -> TimeValue(v.n \div MsPerDay, v.n % MsPerDay)
      [] OTHER -> InvalidDate

\* date.setMonth(date.getMonth() + n) in a zone `off` minutes east of UTC:
\* the local year, month, day and time of day are read, the month is advanced,
\* and the day of the month is kept as a count of days from the first of the
\* target month.
SetMonthPlus(date, n, off) ==
    LET local  == date.ms + off * MsPerMinute
        lday   == date.day + local \div MsPerDay
        ltime  == local % MsPerDay
        ymd    == CivilFromDays(lday)
        idx    == (ymd[2] - 1) + n
        y2     == ymd[1] + idx \div 12
        m2     == (idx % 12) + 1
        lday2  == DaysFromCivil(y2, m2, 1) + ymd[3] - 1
        utc    == ltime - off * MsPerMinute
    IN  TimeValue(lday2 + utc \div MsPerDay, utc % MsPerDay)

TwoDigits(k) == <<Digits[(k \div 10) + 1], Digits[(k % 10) + 1]>>

FourDigits(k) == TwoDigits(k \div 100) \o TwoDigits(k % 100)

\* date.toISOString().split('T')[0] for a valid date of the years 0..9999.
ISODatePart(date) ==
    LET ymd == CivilFromDays(date.day)
    IN  Str(FourDigits(ymd[1]) \o <<"-">> \o TwoDigits(ymd[2]) \o <<"-">> \o TwoDigits(ymd[3]))

\* The date string of the civil date y-m-d.
DateString(y, m, d) == Str(FourDigits(y) \o <<"-">> \o TwoDigits(m) \o <<"-">> \o TwoDigits(d))

Returned(v) == [throws |-> FALSE, value |-> v]

Thrown == [throws |-> TRUE, value |-> Undefined]

\* calculateRenewalDate(activationDate, validityMonths) evaluated in a zone
\* `off` minutes east of UTC.  toISOString throws a RangeError on an invalid
\* Date, which setMonth(NaN) and an unparsable activation date both produce.
calculateRenewalDate(activationDate, validityMonths, off) ==
    IF ~Truthy(activationDate) \/ ~Truthy(validityMonths) THEN Returned(Str(<<>>))
    ELSE LET date   == NewDate(activationDate)
             months == ParseInt(validityMonths)
         IN  IF ~date.valid \/ months.nan THEN Thrown
             ELSE Returned(ISODatePart(SetMonthPlus(date, months.n, off)))

\* a < b on two Dates: the time values compared, false when either is NaN.
DateLess(a, b) ==
    /\ a.valid /\ b.valid
    /\ a.day < b.day \/ (a.day = b.day /\ a.ms < b.ms)

\* isExpired with <= in place of <.
isExpiredOrDue(renewalDate, today) ==
    LET date == NewDate(renewalDate)
    IN  /\ Truthy(renewalDate)
        /\ date.valid /\ today.valid
        /\ date.day < today.day \/ (date.day = today.day /\ date.ms <= today.ms)

\* isExpired(renewalDate) evaluated when new Date() gives `today`.
isExpired(renewalDate, today) ==
    IF ~Truthy(renewalDate) THEN FALSE
    ELSE DateLess(NewDate(renewalDate), today)

(***************************************************************************)
(* Product records.  The fields modelled are the id, the seven required    *)
(* fields and the derived renewalDate; the optional fields of the form     *)
(* (oemSerialNumber, model, networkType, ...) are copied along unread by   *)
(* every operation modelled here and are left out.                         *)
(***************************************************************************)
RequiredFields == {"serialNumber", "productName", "activationDate", "validityPeriod",
                   "deviceUID", "endUserName", "industryCategory"}

Fields == {"id", "renewalDate"} \cup RequiredFields

Empty == Str(<<>>)

\* The initial formData of the add form: every field '', and no id key.
BlankForm == [f \in Fields |-> IF f = "id" THEN Undefined ELSE Empty]

Ids(ps) == {ps[i].id : i \in 1..Len(ps)}

(***************************************************************************)
(* Bounds of the model and the inputs the environment offers.              *)
(***************************************************************************)
MaxProducts == 2

MaxClock == 2

MaxPending == 1

\* Minutes east of UTC of the zones the browser may run in.
ZoneOffsets == {-300, 0, 330}

A == Str(<<"A">>)

B == Str(<<"B">>)

Jan31 == DateString(2024, 1, 31)

NotADate == Str(<<"n", "/", "a">>)

\* Spreadsheet files the user may pick.  "malformed" cannot be parsed; the
\* others hold the rows sheet_to_json returns for their first sheet.
Files == {"malformed", "legacy", "exported"}

LegacyRow1 == [BlankForm EXCEPT !.serialNumber = Num(0), !.productName = A,
                                !.activationDate = Jan31, !.validityPeriod = Num(1),
                                !.renewalDate = Undefined, !.deviceUID = A,
                                !.endUserName = A, !.industryCategory = Undefined]

LegacyRow2 == [BlankForm EXCEPT !.serialNumber = A, !.productName = Empty,
                                !.activationDate = NotADate, !.validityPeriod = Undefined,
                                !.renewalDate = Jan31, !.deviceUID = A,
                                !.endUserName = A, !.industryCategory = A]

ExportedRow(name) == [BlankForm EXCEPT !.id = Num(1), !.serialNumber = A,
                                       !.productName = name,
                                       !.activationDate = Jan31, !.validityPeriod = Str(<<"1">>),
                                       !.renewalDate = DateString(2024, 3, 2), !.deviceUID = A,
                                       !.endUserName = A, !.industryCategory = A]

\* XLSX.read + XLSX.utils.sheet_to_json on the bytes of a file: the parser
\* throws on bytes it cannot read and otherwise returns the rows of the sheet.
SheetToJson(file) ==
    CASE file = "malformed" -> Thrown
      [] file = "legacy"    -> [throws |-> FALSE, value |-> <<LegacyRow1, LegacyRow2>>]
      [] OTHER              -> [throws |-> FALSE, value |-> <<ExportedRow(A), ExportedRow(B)>>]

\* What the user types into the form between two clicks: a sequence of
\* onChange events, each giving one field the value of its input.
Change(f, v) == [f |-> f, v |-> v]

FillAll == <<Change("serialNumber", A), Change("productName", A),
             Change("activationDate", Jan31), Change("validityPeriod", Str(<<"1">>)),
             Change("deviceUID", A), Change("endUserName", A),
             Change("industryCategory", A)>>

Scripts == {FillAll,
            <<Change("endUserName", Empty)>>,
            <<Change("validityPeriod", Str(<<"0">>))>>}

(***************************************************************************)
(* State.                                                                  *)
(***************************************************************************)
VARIABLES
    products,        \* useState([]): the record set
    store,           \* localStorage item 'products': <<>> (none) or <<text>>
    showAddModal,    \* useState(false)
    editingProduct,  \* useState(null): <<>> (null) or <<record>>
    formData,        \* ProductModal's useState: <<>> while unmounted, else <<record>>
    errors,          \* ProductModal's useState({}): the keys of the errors object
    pending,         \* files being read by a FileReader, in the order started
    now,             \* Date.now(), in milliseconds since the page was first opened;
                     \* it has moved on by the time the next record is submitted
    crashed,         \* an effect threw: React has unmounted the whole tree
    last,            \* history: what the last handler did ("ui" when it only
                     \* opened, closed or typed into something)
    call,            \* a function of the component applied on its own: <<>>, or
                     \* <<its arguments and its result>>
    mount            \* the first commit: the effects still to run, the state
                     \* update the load effect has scheduled, the effects run

vars == <<products, store, showAddModal, editingProduct, formData, errors,
          pending, now, crashed, last, call, mount>>

NoItem == <<>>

\* JSON.stringify(products): a key whose value is undefined is dropped, strings
\* and numbers are written as they are.
JSONStringify(ps) ==
    [i \in 1..Len(ps) |-> [f \in {g \in Fields : ps[i][g].t # "undefined"} |-> ps[i][f]]]

\* JSON.parse of such a text: a key not in the text reads as undefined.
JSONParse(text) ==
    [i \in 1..Len(text) |->
        [f \in Fields |-> IF f \in DOMAIN text[i] THEN text[i][f] ELSE Undefined]]

\* The component once its first commit is over: no effect is left to run.
Mounted == [effects |-> {}, update |-> <<>>, ran |-> <<>>]

\* The save effect without its length test.
SaveEffectUnguarded(ps, st) == <<JSONStringify(ps)>>

\* The save effect (deps [products]), run after a render with a new products.
SaveEffect(ps, st) == IF Len(ps) > 0 THEN <<JSONStringify(ps)>> ELSE st

\* ProductModal's derivation effect on a form, in zone off: the form after
\* it, or a throw.
DeriveEffect(form, off) ==
    IF Truthy(form.activationDate) /\ Truthy(form.validityPeriod)
    THEN LET renewal == calculateRenewalDate(form.activationDate, form.validityPeriod, off)
         IN  IF renewal.throws THEN Thrown
             ELSE Returned([form EXCEPT !.renewalDate = renewal.value])
    ELSE Returned(form)

\* Mounting ProductModal: formData starts as editingProduct || blank and the
\* derivation effect runs once.
MountModal(editing, off) ==
    DeriveEffect(IF editing # <<>> THEN editing[1] ELSE BlankForm, off)

\* The onChange events of a script applied in order; after each one that
\* changes activationDate or validityPeriod the derivation effect runs.
RECURSIVE ApplyChanges(_, _, _)
ApplyChanges(form, script, off) ==
    IF script = <<>> THEN Returned(form)
    ELSE LET c      == Head(script)
             typed  == [form EXCEPT ![c.f] = c.v]
             after  == IF c.f \in {"activationDate", "validityPeriod"} /\ typed # form
                       THEN DeriveEffect(typed, off)
                       ELSE Returned(typed)
         IN  IF after.throws THEN Thrown
             ELSE ApplyChanges(after.value, Tail(script), off)

\* validateForm with the endUserName check left out.
validateFormSkippingEndUser(form) ==
    {f \in RequiredFields \ {"endUserName"} : ~Truthy(form[f])}

\* validateForm: the keys of newErrors.
validateForm(form) == {f \in RequiredFields : ~Truthy(form[f])}

\* saveProduct's new record set.
saveProduct(ps, editing, productData, clock) ==
    IF editing # <<>>
    THEN [i \in 1..Len(ps) |->
            IF ps[i].id = editing[1].id THEN [productData EXCEPT !.id = editing[1].id]
            ELSE ps[i]]
    ELSE Append(ps, [productData EXCEPT !.id = Num(clock)])

\* deleteProduct's new record set.
deleteProduct(ps, id) == SelectSeq(ps, LAMBDA p : p.id # id)

\* reader.onload with the parse wrapped in a try/catch that falls back to no rows.
onloadProductsClearing(ps, data) == IF data.throws THEN <<>> ELSE data.value

\* reader.onload's record set: XLSX.read throwing leaves the handler before
\* setProducts(data) is reached.
onloadProducts(ps, data) == IF data.throws THEN ps ELSE data.value

RemoveAt(q, k) == SubSeq(q, 1, k - 1) \o SubSeq(q, k + 1, Len(q))

UpperCase == <<"A", "B", "C", "D", "E", "F", "G", "H", "I", "J", "K", "L", "M",
               "N", "O", "P", "Q", "R", "S", "T", "U", "V", "W", "X", "Y", "Z">>

LowerCase == <<"a", "b", "c", "d", "e", "f", "g", "h", "i", "j", "k", "l", "m",
               "n", "o", "p", "q", "r", "s", "t", "u", "v", "w", "x", "y", "z">>

\* cs.toLowerCase()
ToLowerCase(cs) ==
    [i \in 1..Len(cs) |->
        IF \E k \in 1..26 : UpperCase[k] = cs[i]
        THEN LowerCase[CHOOSE k \in 1..26 : UpperCase[k] = cs[i]]
        ELSE cs[i]]

\* hay.includes(needle)
Includes(hay, needle) ==
    \E i \in 0..(Len(hay) - Len(needle)) : SubSeq(hay, i + 1, i + Len(needle)) = needle

\* Object.values(product): the values of the keys the object has.
ObjectValues(product) == {product[f] : f \in {g \in Fields : product[g] # Undefined}}

\* products.filter(...) of filteredProducts for a search term and a column.
filteredProducts(ps, searchTerm, filterColumn) ==
    SelectSeq(ps, LAMBDA product :
        IF ~Truthy(searchTerm) THEN TRUE
        ELSE IF filterColumn = "all"
             THEN \E val \in ObjectValues(product) :
                      Includes(ToLowerCase(StringOf(val)), ToLowerCase(searchTerm.s))
             ELSE Includes(ToLowerCase(StringOf(IF Truthy(product[filterColumn])
                                                THEN product[filterColumn] ELSE Empty)),
                           ToLowerCase(searchTerm.s)))

\* products.filter(p => isExpired(p.renewalDate)) when new Date() gives `today`.
expiredProducts(ps, today) == SelectSeq(ps, LAMBDA p : isExpired(p.renewalDate, today))

Uncategorized == Str(<<"U", "n", "c", "a", "t", "e", "g", "o", "r", "i", "z", "e", "d">>)

\* Methods every object inherits from Object.prototype, by property name.
\* A function is held as its string form, which is what `+ 1` makes of it.
ObjectPrototype ==
    LET fun(name) == Str(<<"f", "u", "n", "c", "t", "i", "o", "n", " ">> \o name \o <<"(", ")", " ", "{", " ", "[", "n", "a", "t", "i", "v", "e", " ", "c", "o", "d", "e", "]", " ", "}">>)
    IN  [key \in {<<"c", "o", "n", "s", "t", "r", "u", "c", "t", "o", "r">>,
                  <<"t", "o", "S", "t", "r", "i", "n", "g">>,
                  <<"v", "a", "l", "u", "e", "O", "f">>} |->
            IF key = <<"c", "o", "n", "s", "t", "r", "u", "c", "t", "o", "r">> THEN fun(<<"O", "b", "j", "e", "c", "t">>) ELSE fun(key)]

\* acc[key] on the object being built: its own property, else the inherited one.
GetProperty(acc, key) ==
    IF key \in DOMAIN acc THEN acc[key]
    ELSE IF key \in DOMAIN ObjectPrototype THEN ObjectPrototype[key]
    ELSE Undefined

\* v + 1: addition on a number, concatenation on anything else.
PlusOne(v) == IF v.t = "number" THEN Num(v.n + 1) ELSE Str(StringOf(v) \o <<"1">>)

\* One step of the reduce: acc[industry] = (acc[industry] || 0) + 1.
countIndustry(acc, product) ==
    LET industry == IF Truthy(product.industryCategory) THEN product.industryCategory
                    ELSE Uncategorized
        key      == StringOf(industry)
        current  == GetProperty(acc, key)
        count    == PlusOne(IF Truthy(current) THEN current ELSE Num(0))
    IN  [k \in DOMAIN acc \cup {key} |-> IF k = key THEN count ELSE acc[k]]

\* products.reduce(..., {}): the property names of the result and their values.
RECURSIVE industryAnalytics(_)
industryAnalytics(ps) ==
    IF ps = <<>> THEN <<>>
    ELSE countIndustry(industryAnalytics(SubSeq(ps, 1, Len(ps) - 1)), ps[Len(ps)])

Init ==
    /\ products = <<>>
    /\ store = NoItem
    /\ showAddModal = FALSE
    /\ editingProduct = <<>>
    /\ formData = <<>>
    /\ errors = {}
    /\ pending = <<>>
    /\ now = 1
    /\ crashed = FALSE
    /\ last = "init"
    /\ call = <<>>
    /\ mount = Mounted

\* An effect threw during a commit: the tree is unmounted and stays so until
\* the page is reloaded; FileReaders still running call back into nothing.
Crash ==
    /\ crashed' = TRUE
    /\ showAddModal' = FALSE
    /\ editingProduct' = <<>>
    /\ formData' = <<>>
    /\ errors' = {}
    /\ pending' = <<>>
    /\ last' = "crash"

\* The "Add Product" button.
OpenAdd ==
    /\ ~crashed /\ ~showAddModal
    /\ UNCHANGED <<call, mount>>
    /\ showAddModal' = TRUE
    /\ formData' = <<BlankForm>>
    /\ errors' = {}
    /\ last' = "ui"
    /\ UNCHANGED <<products, store, editingProduct, pending, now, crashed>>

\* The edit button of row i.
OpenEdit(i, off) ==
    /\ ~crashed /\ ~showAddModal
    /\ UNCHANGED <<call, mount>>
    /\ i \in 1..Len(products)
    /\ LET m == MountModal(<<products[i]>>, off)
       IN  IF m.throws
           THEN Crash /\ UNCHANGED <<products, store, now>>
           ELSE /\ editingProduct' = <<products[i]>>
                /\ showAddModal' = TRUE
                /\ formData' = <<m.value>>
                /\ errors' = {}
                /\ last' = "ui"
                /\ UNCHANGED <<products, store, pending, now, crashed>>

\* The X and Cancel buttons of the modal.
CloseModal ==
    /\ ~crashed /\ showAddModal
    /\ UNCHANGED <<call, mount>>
    /\ showAddModal' = FALSE
    /\ editingProduct' = <<>>
    /\ formData' = <<>>
    /\ errors' = {}
    /\ last' = "ui"
    /\ UNCHANGED <<products, store, pending, now, crashed>>

\* The user types into the inputs of the modal.
Type(script, off) ==
    /\ ~crashed /\ showAddModal
    /\ UNCHANGED <<call, mount>>
    /\ LET r == ApplyChanges(formData[1], script, off)
       IN  IF r.throws
           THEN Crash /\ UNCHANGED <<products, store, now>>
           ELSE /\ formData' = <<r.value>>
                /\ formData' # formData
                /\ last' = "ui"
                /\ UNCHANGED <<products, store, showAddModal, editingProduct, errors,
                               pending, now, crashed>>

\* handleSubmit: the Add/Update button of the modal.
HandleSubmit ==
    /\ ~crashed /\ showAddModal
    /\ UNCHANGED <<call, mount>>
    /\ LET newErrors == validateForm(formData[1])
       IN  IF newErrors # {}
           THEN /\ errors' = newErrors
                /\ last' = "rejected"
                /\ UNCHANGED <<products, store, showAddModal, editingProduct, formData,
                               pending, now, crashed>>
           ELSE /\ editingProduct = <<>> => Len(products) < MaxProducts /\ now <= MaxClock
                /\ products' = saveProduct(products, editingProduct, formData[1], now)
                /\ store' = SaveEffect(products', store)
                /\ now' = IF editingProduct = <<>> THEN now + 1 ELSE now
                /\ showAddModal' = FALSE
                /\ editingProduct' = <<>>
                /\ formData' = <<>>
                /\ errors' = {}
                /\ last' = IF editingProduct = <<>> THEN "create" ELSE "update"
                /\ UNCHANGED <<pending, crashed>>

\* The delete button of row i; window.confirm answers ok.
DeleteProduct(i, ok) ==
    /\ ~crashed /\ ~showAddModal
    /\ UNCHANGED <<call, mount>>
    /\ i \in 1..Len(products)
    /\ IF ok
       THEN /\ products' = deleteProduct(products, products[i].id)
            /\ store' = SaveEffect(products', store)
            /\ last' = "delete"
       ELSE /\ last' = "ui"
            /\ UNCHANGED <<products, store>>
    /\ UNCHANGED <<showAddModal, editingProduct, formData, errors, pending, now, crashed>>

\* importFromExcel: the user picks a file and a FileReader starts reading it.
ImportStart(file) ==
    /\ ~crashed /\ ~showAddModal
    /\ UNCHANGED <<call, mount>>
    /\ Len(pending) < MaxPending
    /\ pending' = Append(pending, file)
    /\ last' = "ui"
    /\ UNCHANGED <<products, store, showAddModal, editingProduct, formData, errors,
                   now, crashed>>

\* reader.onload of the k-th read in flight.  setProducts re-renders the
\* parent, which defines ProductModal anew: an open modal is remounted.
ImportOnload(k, off) ==
    /\ ~crashed
    /\ UNCHANGED <<call, mount>>
    /\ k \in 1..Len(pending)
    /\ LET data == SheetToJson(pending[k])
           m    == MountModal(editingProduct, off)
       IN  IF data.throws
           THEN /\ products' = onloadProducts(products, data)
                /\ pending' = RemoveAt(pending, k)
                /\ last' = "importFailed"
                /\ UNCHANGED <<store, showAddModal, editingProduct, formData,
                               errors, now, crashed>>
           ELSE /\ products' = onloadProducts(products, data)
                /\ store' = SaveEffect(products', store)
                /\ IF showAddModal /\ m.throws
                   THEN Crash /\ UNCHANGED now
                   ELSE /\ pending' = RemoveAt(pending, k)
                        /\ formData' = IF showAddModal THEN <<m.value>> ELSE <<>>
                        /\ errors' = {}
                        /\ last' = "import"
                        /\ UNCHANGED <<showAddModal, editingProduct, now, crashed>>

\* The k-th read in flight fails: the reader fires its error event, for which
\* importFromExcel sets no handler.
ImportReadError(k) ==
    /\ ~crashed
    /\ UNCHANGED <<call, mount>>
    /\ k \in 1..Len(pending)
    /\ pending' = RemoveAt(pending, k)
    /\ last' = "readError"
    /\ UNCHANGED <<products, store, showAddModal, editingProduct, formData, errors,
                   now, crashed>>

\* The page is loaded again: state starts over and the load effect restores
\* the stored record set; the save effect then sees the restored set.
Reload ==
    /\ products' = IF store # NoItem THEN JSONParse(store[1]) ELSE <<>>
    /\ store' = SaveEffect(products', store)
    /\ showAddModal' = FALSE
    /\ editingProduct' = <<>>
    /\ formData' = <<>>
    /\ errors' = {}
    /\ pending' = <<>>
    /\ crashed' = FALSE
    /\ last' = "reload"
    /\ UNCHANGED <<now, call, mount>>

Next ==
    \/ OpenAdd
    \/ \E i \in 1..MaxProducts + 1, off \in ZoneOffsets : OpenEdit(i, off)
    \/ CloseModal
    \/ \E script \in Scripts, off \in ZoneOffsets : Type(script, off)
    \/ HandleSubmit
    \/ \E i \in 1..MaxProducts + 1, ok \in BOOLEAN : DeleteProduct(i, ok)
    \/ \E file \in Files : ImportStart(file)
    \/ \E k \in 1..MaxPending, off \in ZoneOffsets : ImportOnload(k, off)
    \/ \E k \in 1..MaxPending : ImportReadError(k)
    \/ Reload

Spec == Init /\ [][Next]_vars

(***************************************************************************)
(* The form alone: the same handlers, with scripts that leave every chosen *)
(* set of required fields empty, over the record sets that adding and      *)
(* importing the legacy sheet produce.  The scripts type one date and one  *)
(* period, whose renewal date is the same in every zone.                   *)
(***************************************************************************)
RECURSIVE ClearAll(_)
ClearAll(fs) ==
    IF fs = {} THEN <<>>
    ELSE LET f == CHOOSE g \in fs : TRUE
         IN  <<Change(f, Empty)>> \o ClearAll(fs \ {f})

\* Every input filled in, then the inputs of fs cleared again.
FillAllBut(fs) == FillAll \o ClearAll(fs)

EmptiedSets == {{f} : f \in RequiredFields}
               \cup {{"serialNumber", "endUserName"}, {"activationDate", "validityPeriod"},
                     {"productName", "deviceUID", "industryCategory"}, RequiredFields}

FormScripts == {FillAll} \cup {FillAllBut(fs) : fs \in EmptiedSets}

NextForm ==
    \/ OpenAdd
    \/ \E i \in 1..MaxProducts + 1, off \in ZoneOffsets : OpenEdit(i, off)
    \/ CloseModal
    \/ \E script \in FormScripts : Type(script, 0)
    \/ HandleSubmit
    \/ ImportStart("legacy")
    \/ \E k \in 1..MaxPending : ImportOnload(k, 0)
    \/ Reload

SpecForm == Init /\ [][NextForm]_vars

(***************************************************************************)
(* The derivation alone: the add form is open and the user types an        *)
(* activation date and a validity period; the effect derives renewalDate.  *)
(***************************************************************************)
MaxMonths == 12

DeriveDates == {DateString(2024, 1, 31), DateString(2024, 3, 15), DateString(2024, 2, 29),
                DateString(2023, 1, 31), DateString(2023, 11, 30), DateString(2024, 3, 1),
                DateString(2024, 12, 31), DateString(2023, 8, 31), DateString(2024, 10, 1)}

InitDerive ==
    /\ products = <<>>
    /\ store = NoItem
    /\ showAddModal = TRUE
    /\ editingProduct = <<>>
    /\ formData = <<BlankForm>>
    /\ errors = {}
    /\ pending = <<>>
    /\ now = 1
    /\ crashed = FALSE
    /\ last = "ui"
    /\ call = <<>>
    /\ mount = Mounted

NextDerive ==
    \E a \in DeriveDates, n \in 1..MaxMonths, off \in ZoneOffsets :
        Type(<<Change("activationDate", a), Change("validityPeriod", Str(NatChars(n)))>>, off)

SpecDerive == InitDerive /\ [][NextDerive]_vars

(***************************************************************************)
(* Startup, effect by effect.  The first render shows products = [] and    *)
(* leaves the load effect and the save effect to run; the load effect      *)
(* schedules setProducts(parsed), which renders again once the effects of  *)
(* the commit are over and leaves the save effect to run on the new        *)
(* products.  The two effects of the first commit run in either order.     *)
(***************************************************************************)
StoredRecords == {ExportedRow(A), ExportedRow(B), LegacyRow1, LegacyRow2}

\* The record sets a previous visit can have stored, the empty one included.
RECURSIVE StoredSets(_)
StoredSets(n) ==
    IF n = 0 THEN {<<>>}
    ELSE StoredSets(n - 1)
         \cup {Append(ps, r) : ps \in {q \in StoredSets(n - 1) : Len(q) = n - 1},
                               r \in StoredRecords}

InitStartup ==
    /\ products = <<>>
    /\ store \in {NoItem} \cup {<<JSONStringify(ps)>> : ps \in StoredSets(MaxProducts)}
    /\ showAddModal = FALSE
    /\ editingProduct = <<>>
    /\ formData = <<>>
    /\ errors = {}
    /\ pending = <<>>
    /\ now = 1
    /\ crashed = FALSE
    /\ last = "init"
    /\ call = <<>>
    /\ mount = [effects |-> {"load", "save"}, update |-> <<>>, ran |-> <<>>]

\* The load effect (deps []): getItem, and setProducts(JSON.parse(...)) when
\* the item is there (its text, "[]" at the least, is never empty).
LoadEffect ==
    /\ "load" \in mount.effects
    /\ mount' = [effects |-> mount.effects \ {"load"},
                 update  |-> IF store # NoItem THEN <<JSONParse(store[1])>>
                             ELSE mount.update,
                 ran     |-> Append(mount.ran, "load")]
    /\ last' = "load"
    /\ UNCHANGED <<products, store, showAddModal, editingProduct, formData, errors,
                   pending, now, crashed, call>>

\* The save effect, run on the products of the render it belongs to.
RunSaveEffect ==
    /\ "save" \in mount.effects
    /\ store' = SaveEffect(products, store)
    /\ mount' = [mount EXCEPT !.effects = mount.effects \ {"save"},
                              !.ran = Append(mount.ran, "save")]
    /\ last' = "save"
    /\ UNCHANGED <<products, showAddModal, editingProduct, formData, errors,
                   pending, now, crashed, call>>

\* The render the scheduled setProducts brings about: products is a new array,
\* so the save effect is left to run again.
Rerender ==
    /\ mount.effects = {} /\ mount.update # <<>>
    /\ products' = mount.update[1]
    /\ mount' = [mount EXCEPT !.effects = {"save"}, !.update = <<>>]
    /\ last' = "render"
    /\ UNCHANGED <<store, showAddModal, editingProduct, formData, errors,
                   pending, now, crashed, call>>

NextStartup == LoadEffect \/ RunSaveEffect \/ Rerender

SpecStartup == InitStartup /\ [][NextStartup]_vars

(***************************************************************************)
(* The industry field on its own: records are created, edited, deleted and *)
(* imported with a choice of industry names typed into the form.           *)
(***************************************************************************)
Industries == {B, Uncategorized, Str(<<"c", "o", "n", "s", "t", "r", "u", "c", "t", "o", "r">>)}

IndustryScripts == {FillAll} \cup {<<Change("industryCategory", c)>> : c \in Industries}

NextIndustry ==
    \/ OpenAdd
    \/ \E i \in 1..MaxProducts : OpenEdit(i, 0)
    \/ CloseModal
    \/ \E script \in IndustryScripts : Type(script, 0)
    \/ HandleSubmit
    \/ \E i \in 1..MaxProducts : DeleteProduct(i, TRUE)
    \/ ImportStart("legacy")
    \/ \E k \in 1..MaxPending : ImportOnload(k, 0)

SpecIndustry == Init /\ [][NextIndustry]_vars

(***************************************************************************)
(* The functions of the component applied on their own: each action        *)
(* evaluates one function on arguments drawn from the values a field can   *)
(* hold and records the arguments and the result in `call`.                *)
(***************************************************************************)
appVars == <<products, store, showAddModal, editingProduct, formData, errors,
             pending, now, crashed, last, mount>>

\* Activation dates: absent, the blank of the form, calendar dates, other text.
CalcDates == {Undefined, Empty, Jan31, DateString(2024, 3, 15), NotADate}

\* Validity values: absent, blank, numbers of a sheet, strings of the form.
CalcMonths == {Undefined, Empty, Num(0), Num(-3), Num(12),
               Str(<<"0">>), Str(<<"-", "3">>), Str(<<"1", ".", "5">>),
               Str(<<"a", "b", "c">>), Str(<<"1", "2">>)}

CalculateRenewalDate(a, v, off) ==
    /\ call' = <<[fn |-> "calculateRenewalDate", activationDate |-> a,
                  validityMonths |-> v, off |-> off,
                  result |-> calculateRenewalDate(a, v, off)]>>
    /\ UNCHANGED appVars

\* Renewal dates: absent, the blank of the form, calendar dates, other text.
ExpiryDates == {Undefined, Empty, Jan31, DateString(2024, 1, 30), DateString(2024, 2, 1),
                DateString(2024, 2, 29), NotADate}

\* Current times: the first, second and last millisecond (UTC) of the days
\* from 2024-01-30 to 2024-02-01, and of 2024-02-29.
Instants == {TimeValue(DaysFromCivil(2024, 1, 31) + d, ms) :
                 d \in {-1, 0, 1, 29}, ms \in {0, 1, MsPerDay - 1}}

IsExpired(r, t) ==
    /\ call' = <<[fn |-> "isExpired", renewalDate |-> r, today |-> t,
                  result |-> isExpired(r, t)]>>
    /\ UNCHANGED appVars

\* Record sets to search: none, the rows of the two sheets, two rows in
\* the other order.
RecordLists == {<<>>, <<LegacyRow1, LegacyRow2>>, <<ExportedRow(A), ExportedRow(B)>>,
                <<LegacyRow2, ExportedRow(B)>>, <<ExportedRow(B), LegacyRow1>>}

SearchTerms == {Empty, A, B, Str(<<"a">>), Str(<<"0">>), Str(<<"2", "4", "-", "0">>),
                Str(<<"N", "/">>)}

FilterColumns == {"all", "serialNumber", "productName", "endUserName", "deviceUID",
                  "industryCategory"}

FilteredProducts(ps, term, col) ==
    /\ call' = <<[fn |-> "filteredProducts", products |-> ps, searchTerm |-> term,
                  filterColumn |-> col, result |-> filteredProducts(ps, term, col)]>>
    /\ UNCHANGED appVars

NextCalls ==
    \/ \E a \in CalcDates, v \in CalcMonths, off \in ZoneOffsets : CalculateRenewalDate(a, v, off)
    \/ \E r \in ExpiryDates, t \in Instants : IsExpired(r, t)
    \/ \E ps \in RecordLists, term \in SearchTerms, col \in FilterColumns :
          FilteredProducts(ps, term, col)

SpecCalls == Init /\ [][NextCalls]_vars

(***************************************************************************)
(* Properties.                                                             *)
(***************************************************************************)
\* A field is present when it is neither absent nor the empty string.
Present(v) == v \notin {Undefined, Empty}

\* Calendar-month addition with end-of-month clamping: the day of the month
\* is kept when the target month has it, else the target month's last day.
AddMonthsClamped(date, n) ==
    LET y   == DigitPrefix(SubSeq(date.s, 1, 4), 0)
        m   == DigitPrefix(SubSeq(date.s, 6, 7), 0)
        d   == DigitPrefix(SubSeq(date.s, 9, 10), 0)
        idx == (m - 1) + n
        y2  == y + idx \div 12
        m2  == (idx % 12) + 1
        d2  == IF d <= DaysInMonth(y2, m2) THEN d ELSE DaysInMonth(y2, m2)
    IN  DateString(y2, m2, d2)

\* The step is a run of handleSubmit.
SubmitStep == showAddModal /\ last' \in {"rejected", "create", "update"}

\* C1: no two records of the set have the same id, and every record has one.
C1_IdsUnique ==
    /\ \A i \in 1..Len(products) : products[i].id # Undefined
    /\ \A i, j \in 1..Len(products) : i # j => products[i].id # products[j].id

\* C2: after every create, update, delete and import the stored item equals the
\* current record set (so deleting the last record stores the empty set).
C2_StoreFollowsRecordSet ==
    last \in {"create", "update", "delete", "import"} => store = <<JSONStringify(products)>>

\* C3: every record with both activationDate and validityPeriod present has
\* renewalDate = activationDate + validityPeriod months, and every other record
\* has an empty renewalDate.
C3_RenewalDerived ==
    \A i \in 1..Len(products) :
        LET p == products[i]
        IN  IF Present(p.activationDate) /\ Present(p.validityPeriod)
            THEN (p.activationDate.t = "string" /\ IsISODate(p.activationDate.s)
                  /\ ~ParseInt(p.validityPeriod).nan)
                 => p.renewalDate = AddMonthsClamped(p.activationDate, ParseInt(p.validityPeriod).n)
            ELSE ~Present(p.renewalDate)

EmptyRequired(form) == {f \in RequiredFields : ~Present(form[f])}

EmptyOrZeroRequired(form) == {f \in RequiredFields : form[f] \in {Undefined, Empty, Num(0)}}

UpdateOfAbsent ==
    /\ showAddModal /\ editingProduct # <<>>
    /\ editingProduct[1].id \notin Ids(products)
    /\ validateForm(formData[1]) = {}

\* C5: an update whose target id is not in the record set fails (it does not
\* complete as an update) and alters no record.
C5_UpdateOfAbsentFails ==
    [][SubmitStep /\ UpdateOfAbsent => last' # "update" /\ products' = products]_vars

\* C6: a successful update leaves the edited record at its position with its id
\* and the submitted values, and every other record, the length and the order
\* unchanged.
C6_UpdateInPlace ==
    [][SubmitStep /\ last' = "update" /\ ~UpdateOfAbsent
                  /\ editingProduct[1].id # Undefined
       => /\ Len(products') = Len(products)
          /\ \E i \in 1..Len(products) :
                /\ products[i].id = editingProduct[1].id
                /\ products'[i] = [formData[1] EXCEPT !.id = editingProduct[1].id]
                /\ \A j \in 1..Len(products) : j # i => products'[j] = products[j]]_vars

\* The step ends the read of a file that could not be read, or is reader.onload
\* for a file that cannot be parsed.
FailedImportStep ==
    \/ last' = "readError"
    \/ /\ last' \in {"import", "importFailed"}
       /\ \E k \in 1..Len(pending) :
             pending[k] = "malformed" /\ pending' = RemoveAt(pending, k)

\* C7: an import whose file cannot be read or parsed leaves the record set (and
\* the stored item) as it was; an import that is applied replaces the whole set
\* by the parsed rows.
C7_FailedImportAppliesNothing ==
    [][/\ FailedImportStep => products' = products /\ store' = store
       /\ last' = "import" /\ ~FailedImportStep
          => \E k \in 1..Len(pending) : products' = SheetToJson(pending[k]).value]_vars

\* A failed import has just left a non-empty record set in place.
C7_Witness == last = "importFailed" /\ products # <<>>

\* C8: while a file is being read no create, update or delete is applied, and
\* the import applied is the only one in flight.
C8_NoMutationWhileReading ==
    [][pending # <<>>
       => /\ last' \notin {"create", "update", "delete"}
          /\ last' = "import" => Len(pending) = 1]_vars

\* C9: after an import every record has an id: a row's own id is kept, and a
\* row without one gets an id no other record of the result has.
C9_ImportAssignsIds ==
    [][last' = "import"
       => \E k \in 1..Len(pending) :
            LET rows == SheetToJson(pending[k]).value
            IN  /\ Len(products') = Len(rows)
                /\ \A i \in 1..Len(rows) :
                      /\ products'[i].id # Undefined
                      /\ rows[i].id # Undefined => products'[i].id = rows[i].id
                      /\ rows[i].id = Undefined
                         => \A j \in 1..Len(rows) : j # i => products'[j].id # products'[i].id]_vars

\* C10: the derived renewal date is the activation date advanced by the
\* validity months, the day of the month clamped to the target month's length.
C10_RenewalIsClampedSum ==
    (formData # <<>> /\ Present(formData[1].activationDate)
                     /\ Present(formData[1].validityPeriod))
    => formData[1].renewalDate
         = AddMonthsClamped(formData[1].activationDate, ParseInt(formData[1].validityPeriod).n)

\* A validity value that is a whole number of months greater than zero: a
\* positive number, or a string of decimal digits naming one.
IsPositiveInteger(v) ==
    \/ v.t = "number" /\ v.n > 0
    \/ /\ v.t = "string" /\ v.s # <<>>
       /\ \A i \in 1..Len(v.s) : IsDigit(v.s[i])
       /\ DigitPrefix(v.s, 0) > 0

\* C11: calculateRenewalDate returns the empty result, without raising,
\* whenever the activation date is absent or the validity value is absent,
\* zero, negative or not an integer (the strings "0", "-3" and non-numeric
\* text included).
C11_EmptyWithoutRaising ==
    (/\ call # <<>>
     /\ call[1].fn = "calculateRenewalDate"
     /\ ~Present(call[1].activationDate) \/ ~IsPositiveInteger(call[1].validityMonths))
    => call[1].result = Returned(Empty)


\* C12: whatever the current time, a record whose validityPeriod is empty is
\* not among the expired products, a record imported with a renewalDate and no
\* validityPeriod included.
C12_NoValidityNotExpired ==
    \A t \in Instants :
        LET expired == expiredProducts(products, t)
        IN  \A i \in 1..Len(expired) : Present(expired[i].validityPeriod)

\* The renewal date names a calendar day whose first instant (UTC) is strictly
\* before the instant t.
StrictlyEarlier(r, t) ==
    /\ r.t = "string" /\ IsISODate(r.s)
    /\ LET y == DigitPrefix(SubSeq(r.s, 1, 4), 0)
           m == DigitPrefix(SubSeq(r.s, 6, 7), 0)
           d == DigitPrefix(SubSeq(r.s, 9, 10), 0)
           c == CivilFromDays(t.day)
       IN  \/ y < c[1]
           \/ y = c[1] /\ m < c[2]
           \/ y = c[1] /\ m = c[2] /\ d < c[3]
           \/ y = c[1] /\ m = c[2] /\ d = c[3] /\ t.ms > 0

\* C13: isExpired is true exactly when the renewal date is present and
\* strictly earlier than the current time; a renewal date equal to the current
\* time, and an absent one, give false.
C13_ExpiredIffStrictlyEarlier ==
    (call # <<>> /\ call[1].fn = "isExpired")
    => (call[1].result = TRUE
          <=> Present(call[1].renewalDate)
              /\ StrictlyEarlier(call[1].renewalDate, call[1].today))

\* isExpired has answered false for a renewal date equal to the current time.
C13_Witness ==
    /\ call # <<>> /\ call[1].fn = "isExpired"
    /\ call[1].renewalDate = Jan31
    /\ call[1].today = TimeValue(DaysFromCivil(2024, 1, 31), 0)
    /\ call[1].result = FALSE

\* The string form of the record's field contains the term, letter case
\* ignored; an absent field has the empty string as its string form.
FieldContains(p, f, term) ==
    Includes(ToLowerCase(IF p[f] = Undefined THEN <<>> ELSE StringOf(p[f])),
             ToLowerCase(term.s))

\* The record matches the term under the column.
Matches(p, term, col) ==
    \/ term = Empty
    \/ col = "all" /\ \E f \in Fields : p[f] # Undefined /\ FieldContains(p, f, term)
    \/ col # "all" /\ FieldContains(p, col, term)

\* C14: filteredProducts is the order-preserving subsequence of exactly the
\* matching records: every record under an empty term; under column 'all' the
\* records with a field whose string form contains the term, case ignored;
\* under a specific column the records whose field of that name (absent read
\* as the empty string) contains the term, case ignored.
C14_FilterIsMatchingSubsequence ==
    (call # <<>> /\ call[1].fn = "filteredProducts")
    => call[1].result
         = SelectSeq(call[1].products,
                     LAMBDA p : Matches(p, call[1].searchTerm, call[1].filterColumn))

\* The sum of the counts held under the given property names.
RECURSIVE SumCounts(_, _)
SumCounts(analytics, keys) ==
    IF keys = {} THEN 0
    ELSE LET k == CHOOSE x \in keys : TRUE
         IN  analytics[k].n + SumCounts(analytics, keys \ {k})

\* C15: the industryAnalytics counts summed over all keys equal the number of
\* records, each record without an industryCategory counted once under
\* 'Uncategorized'.
C15_CountsSumToRecords ==
    LET analytics == industryAnalytics(products)
        lacking   == {i \in 1..Len(products) : ~Present(products[i].industryCategory)}
    IN  /\ \A k \in DOMAIN analytics : analytics[k].t = "number"
        /\ SumCounts(analytics, DOMAIN analytics) = Len(products)
        /\ lacking # {} => /\ StringOf(Uncategorized) \in DOMAIN analytics
                           /\ analytics[StringOf(Uncategorized)].n >= Cardinality(lacking)

\* The stored item holds a record set that is not empty.
StoredNonEmpty == store # NoItem /\ store[1] # <<>>

\* No effect is left to run and no state update is scheduled.
StartupComplete == mount.effects = {} /\ mount.update = <<>>

\* C16: at startup, in whichever order the load effect and the save effect
\* run, a stored record set that is not empty is never overwritten by the
\* empty in-memory set: no step changes the stored set, and once startup is
\* complete the in-memory set equals the stored one.
C16_StartupKeepsStoredSet ==
    /\ [][StoredNonEmpty => store' = store]_vars
    /\ [](StartupComplete /\ StoredNonEmpty => products = JSONParse(store[1]))

\* Startup is complete over a stored record set, the save effect having run
\* before the load effect.
C16_Witness ==
    /\ StartupComplete /\ StoredNonEmpty
    /\ mount.ran = <<"save", "load", "save">>
    /\ products # <<>>

=============================================================================
